---- MODULE Spec2Model ----
(***************************************************************************)
(* A model of the TensorBoard event writer of rust-tfrecord:               *)
(*   src/src/summary/event.rs   EventInit and SummaryInit (the builders)   *)
(*   src/src/summary/writer.rs  EventWriterInit and EventWriter            *)
(* The record framer, the checksum codec, the protobuf encoder and the     *)
(* byte sink are collaborators of these two files; they are modelled from  *)
(* the design document (sections 4.1, 4.2 and 6).                          *)
(*                                                                         *)
(* Representation.  A byte is a number in 0..255, a string is the sequence *)
(* of its UTF-8 bytes, a 32-bit word is the sequence of its four bytes,    *)
(* least significant first (TLC's integers are 32-bit signed).  An         *)
(* Option<T> is NoneV or Some(x).  A wall time (f64 seconds) and a scalar  *)
(* (f32) are whole numbers from 0 to below 2^20.                           *)
(***************************************************************************)
EXTENDS Integers, Sequences, FiniteSets, TLC

(***************************************************************************)
(* Bounds of the model.                                                    *)
(***************************************************************************)
\* Operations (writes, flushes) issued against one writer.
MaxOps == 2
\* Sink calls that fail, and operations abandoned, during one run.
MaxFaults == 1
\* Bytes a failing write_all may have handed over before it failed.
MaxPartial == 1
\* Readings of the system clock: 1..MaxClock.
MaxClock == 2
\* Constructor calls in one run.
MaxCtor == 1

(***************************************************************************)
(* Options, bytes and strings.                                             *)
(***************************************************************************)
NoneV == [some |-> FALSE]
Some(x) == [some |-> TRUE, v |-> x]

Byte == 0..255

RECURSIVE Concat(_)
\* The concatenation of a sequence of sequences.
Concat(ss) == IF ss = <<>> THEN <<>> ELSE Head(ss) \o Concat(Tail(ss))

Take(s, n) == SubSeq(s, 1, n)
Drop(s, n) == SubSeq(s, n + 1, Len(s))
IsPrefix(p, s) == Len(p) <= Len(s) /\ Take(s, Len(p)) = p

\* "0".."9" as bytes, and the decimal text of a natural number ({} of format!).
RECURSIVE Decimal(_)
Decimal(n) == IF n < 10 THEN <<48 + n>> ELSE Decimal(n \div 10) \o <<48 + (n % 10)>>

(***************************************************************************)
(* Bitwise arithmetic on bytes and on 32-bit words.                        *)
(***************************************************************************)
RECURSIVE XorBits(_, _, _)
XorBits(a, b, n) ==
    IF n = 0 THEN 0
    ELSE ((a + b) % 2) + 2 * XorBits(a \div 2, b \div 2, n - 1)

Xor4 == [a \in 0..15 |-> [b \in 0..15 |-> XorBits(a, b, 4)]]

XorByte(a, b) == 16 * Xor4[a \div 16][b \div 16] + Xor4[a % 16][b % 16]

XorWord(w, v) ==
    <<XorByte(w[1], v[1]), XorByte(w[2], v[2]), XorByte(w[3], v[3]), XorByte(w[4], v[4])>>

\* w >> 1 and w >> 8 on a little-endian word.
Shr1(w) ==
    << (w[1] \div 2) + 128 * (w[2] % 2),
       (w[2] \div 2) + 128 * (w[3] % 2),
       (w[3] \div 2) + 128 * (w[4] % 2),
       w[4] \div 2 >>

Shr8(w) == <<w[2], w[3], w[4], 0>>

(***************************************************************************)
(* 4.1 Checksum codec: CRC32C (Castagnoli, reflected polynomial            *)
(* 0x82F63B78, initial value and final xor 0xFFFFFFFF) and its mask.       *)
(***************************************************************************)
CastagnoliPoly == <<120, 59, 246, 130>>

RECURSIVE CrcTableEntry(_, _)
CrcTableEntry(w, k) ==
    IF k = 0 THEN w
    ELSE CrcTableEntry(IF w[1] % 2 = 1 THEN XorWord(Shr1(w), CastagnoliPoly)
                                       ELSE Shr1(w),
                       k - 1)

CrcTable == [i \in Byte |-> CrcTableEntry(<<i, 0, 0, 0>>, 8)]

\* One byte into the running checksum (crc is evaluated once).
CrcStep(crc, byte) ==
    CHOOSE crc_out \in {XorWord(CrcTable[XorByte(crc_in[1], byte)], Shr8(crc_in))
                        : crc_in \in {crc}} : TRUE

RECURSIVE CrcUpdate(_, _, _, _)
\* data[lo..hi] into the running checksum crc, left to right: the left half
\* first, then the right half from the checksum the left half gave.
CrcUpdate(crc, data, lo, hi) ==
    IF lo > hi THEN crc
    ELSE IF lo = hi THEN CrcStep(crc, data[lo])
    ELSE CHOOSE crc_right \in
            {CrcUpdate(crc_left, data, ((lo + hi) \div 2) + 1, hi)
               : crc_left \in {CrcUpdate(crc, data, lo, (lo + hi) \div 2)}} : TRUE

\* (bytes is evaluated once.)
crc32c(bytes) ==
    CHOOSE crc_final \in {XorWord(CrcUpdate(<<255, 255, 255, 255>>, input, 1, Len(input)),
                                  <<255, 255, 255, 255>>) : input \in {bytes}} : TRUE

\* ((crc >> 15) | (crc << 17)) + 0xA282EAD8 (mod 2^32), on 16-bit halves.
MaskHi == 41602
MaskLo == 60120
Half == 65536

mask(w) ==
    LET lo == w[1] + 256 * w[2]
        hi == w[3] + 256 * w[4]
        \* rotate left by 16 (swap the halves), then left by 1
        rlo == ((2 * hi) % Half) + (lo \div 32768)
        rhi == ((2 * lo) % Half) + (hi \div 32768)
        slo == rlo + MaskLo
        shi == (rhi + MaskHi + (slo \div Half)) % Half
        l == slo % Half
    IN  <<l % 256, l \div 256, shi % 256, shi \div 256>>

masked_crc32c(bytes) == mask(crc32c(bytes))

(***************************************************************************)
(* Results and errors (crate::error::Error).                               *)
(***************************************************************************)
Ok(x) == [ok |-> TRUE, v |-> x]
Err(e) == [ok |-> FALSE, err |-> e]

(***************************************************************************)
(* What callers pass in.                                                   *)
(*   T: ToString          a string, or a number printed in decimal         *)
(*   impl Into<EventInit> a step, a step with a wall time, a step with a   *)
(*                        SystemTime, or an EventInit                      *)
(*   X: TryInto<Proto>    a value whose conversion yields a proto or fails *)
(***************************************************************************)
Str(bytes) == [ty |-> "str", s |-> bytes, n |-> 0]
Num(k) == [ty |-> "int", s |-> <<>>, n |-> k]

to_string(t) == IF t.ty = "int" THEN Decimal(t.n) ELSE t.s

Convertible(proto) == [ok |-> TRUE, proto |-> proto]
Inconvertible == [ok |-> FALSE]

\* TryInto::try_into of a caller's histogram, tensor, image or audio value.
try_into(x) == IF x.ok THEN Ok(x.proto) ELSE Err("ConversionError")

\* TryInfoImageList::try_into_image_list: every image converts, or the list fails.
try_into_image_list(images) ==
    IF \E i \in 1..Len(images) : ~images[i].ok
    THEN Err("ConversionError")
    ELSE Ok([i \in 1..Len(images) |-> images[i].proto])

(***************************************************************************)
(* src/src/summary/event.rs: EventInit.                                    *)
(***************************************************************************)
EventInit_new(step, wall_time) == [wall_time |-> Some(wall_time), step |-> step]

with_step(step) == [wall_time |-> NoneV, step |-> step]

\* duration_since(UNIX_EPOCH).unwrap().as_nanos() as f64 / 1.0e9: the seconds
\* since the epoch of a SystemTime.  The clock of the model reads whole
\* seconds, which the division gives back exactly.
as_secs_f64(time) == time

\* get_wall_time: SystemTime::now() in seconds; clk is the reading of the clock.
get_wall_time(clk) == as_secs_f64(clk)

\* A faulty to_parts: the caller's wall time is dropped for the clock's.
to_parts_ignoring_wall_time(init, clk) == <<get_wall_time(clk), init.step>>

to_parts(init, clk) ==
    LET wall_time == IF init.wall_time.some THEN init.wall_time.v
                                            ELSE get_wall_time(clk)
    IN  <<wall_time, init.step>>

build_empty(init, clk) ==
    LET parts == to_parts(init, clk)
    IN  [wall_time |-> parts[1], step |-> parts[2], what |-> NoneV]

build_with_summary(init, summary, clk) ==
    LET parts == to_parts(init, clk)
    IN  [wall_time |-> parts[1], step |-> parts[2], what |-> Some(summary)]

\* From<i64>, From<(i64, f64)> and From<(i64, SystemTime)> for EventInit.
FromStep(step) == [form |-> "i64", step |-> step, wall_time |-> 0]
FromStepWall(step, wt) == [form |-> "i64_f64", step |-> step, wall_time |-> wt]
FromStepTime(step, t) == [form |-> "i64_SystemTime", step |-> step, wall_time |-> t]

into_EventInit(x) ==
    IF x.form = "i64" THEN with_step(x.step)
    ELSE IF x.form = "i64_f64" THEN EventInit_new(x.step, x.wall_time)
    ELSE EventInit_new(x.step, as_secs_f64(x.wall_time))

(***************************************************************************)
(* src/src/summary/event.rs: SummaryInit, one builder per kind of value.   *)
(***************************************************************************)
S_empty == <<>>
\* "text", "/image" and "/image/"
S_text == <<116, 101, 120, 116>>
S_image == <<47, 105, 109, 97, 103, 101>>
S_slash == <<47>>

DtString == 7

Value(node_name, tag, metadata, value) ==
    [node_name |-> node_name, tag |-> tag, metadata |-> metadata, value |-> value]

SimpleValue(v) == [kind |-> "SimpleValue", simple_value |-> v]
Tensor(p) == [kind |-> "Tensor", tensor |-> p]
Histo(p) == [kind |-> "Histo", histo |-> p]
Image(p) == [kind |-> "Image", image |-> p]
Audio(p) == [kind |-> "Audio", audio |-> p]

TensorProto(dtype, dims, string_val, content) ==
    [dtype |-> dtype,
     tensor_shape |-> [dim |-> dims, unknown_rank |-> FALSE],
     version_number |-> 0,
     string_val |-> string_val,
     tensor_content |-> content]

build_scalar(tag, value) ==
    Ok([value |-> <<Value(S_empty, to_string(tag), NoneV, SimpleValue(value))>>])

\* A faulty build_string: the description is left empty.
build_string_without_description(tag, value) ==
    Ok([value |-> <<
        Value(S_empty, to_string(tag),
              Some([plugin_data |-> Some([plugin_name |-> S_text, content |-> <<>>]),
                    display_name |-> S_empty,
                    summary_description |-> S_empty,
                    data_class |-> 0]),
              Tensor(TensorProto(DtString, <<[size |-> 1, name |-> S_empty]>>,
                                 <<to_string(value)>>, <<>>))) >>])

build_string(tag, value) ==
    LET v == to_string(value)
    IN  Ok([value |-> <<
            Value(S_empty, to_string(tag),
                  Some([plugin_data |-> Some([plugin_name |-> S_text,
                                              content |-> <<>>]),
                        display_name |-> S_empty,
                        summary_description |-> v,
                        data_class |-> 0]),
                  Tensor(TensorProto(DtString,
                                     <<[size |-> 1, name |-> S_empty]>>,
                                     <<v>>, <<>>))) >>])

build_histogram(tag, histogram) ==
    IF ~try_into(histogram).ok THEN Err(try_into(histogram).err)
    ELSE Ok([value |-> <<Value(S_empty, to_string(tag), NoneV,
                               Histo(try_into(histogram).v))>>])

\* A faulty build_tensor: it keeps the metadata of the text builder.
build_tensor_with_text_metadata(tag, tensor) ==
    IF ~try_into(tensor).ok THEN Err(try_into(tensor).err)
    ELSE Ok([value |-> <<Value(S_empty, to_string(tag),
                               Some([plugin_data |-> Some([plugin_name |-> S_text,
                                                           content |-> <<>>]),
                                     display_name |-> S_empty,
                                     summary_description |-> S_empty,
                                     data_class |-> 0]),
                               Tensor(try_into(tensor).v))>>])

build_tensor(tag, tensor) ==
    IF ~try_into(tensor).ok THEN Err(try_into(tensor).err)
    ELSE Ok([value |-> <<Value(S_empty, to_string(tag), NoneV,
                               Tensor(try_into(tensor).v))>>])

build_image(tag, image) ==
    IF ~try_into(image).ok THEN Err(try_into(image).err)
    ELSE Ok([value |-> <<Value(S_empty, to_string(tag), NoneV,
                               Image(try_into(image).v))>>])

\* A faulty match on image_protos.len(): a single image is indexed like the
\* images of a longer list.
ImageValues_always_indexed(tag, image_protos) ==
    [i \in 1..Len(image_protos) |->
        Value(S_empty, to_string(tag) \o S_image \o S_slash \o Decimal(i - 1),
              NoneV, Image(image_protos[i]))]

\* The match on image_protos.len(): one image, or any other number of them.
ImageValues(tag, image_protos) ==
    IF Len(image_protos) = 1
    THEN <<Value(S_empty, to_string(tag) \o S_image, NoneV, Image(image_protos[1]))>>
    ELSE [i \in 1..Len(image_protos) |->
            Value(S_empty, to_string(tag) \o S_image \o S_slash \o Decimal(i - 1),
                  NoneV, Image(image_protos[i]))]

build_image_list(tag, images) ==
    IF ~try_into_image_list(images).ok THEN Err(try_into_image_list(images).err)
    ELSE Ok([value |-> ImageValues(tag, try_into_image_list(images).v)])

build_audio(tag, audio) ==
    IF ~try_into(audio).ok THEN Err(try_into(audio).err)
    ELSE Ok([value |-> <<Value(S_empty, to_string(tag), NoneV,
                               Audio(try_into(audio).v))>>])

(***************************************************************************)
(* The protobuf encoder (prost::Message::encode of the Event message):     *)
(* the proto3 wire format of the fields the model holds.  A scalar field   *)
(* that has its default value is left out; a member of a oneof and a       *)
(* present message field are always written.                               *)
(***************************************************************************)
RECURSIVE LittleEndian(_, _)
\* n as k little-endian bytes (u64::to_le_bytes for k = 8).
LittleEndian(n, k) ==
    IF k = 0 THEN <<>> ELSE <<n % 256>> \o LittleEndian(n \div 256, k - 1)

RECURSIVE Log2(_)
\* The exponent of n >= 1: the position of its leading bit.
Log2(n) == IF n < 2 THEN 0 ELSE 1 + Log2(n \div 2)

\* f32::to_le_bytes: the IEEE 754 single of n, 8 bits of exponent (biased
\* by 127) and 23 of fraction.
Float32(n) ==
    IF n = 0 THEN <<0, 0, 0, 0>>
    ELSE LittleEndian((127 + Log2(n)) * 2^23 + (n - 2^Log2(n)) * 2^(23 - Log2(n)), 4)

\* f64::to_le_bytes: the IEEE 754 double of n, 11 bits of exponent (biased
\* by 1023) and 52 of fraction, of which the leading 20 can be set.
Float64(n) ==
    IF n = 0 THEN <<0, 0, 0, 0, 0, 0, 0, 0>>
    ELSE <<0, 0, 0, 0,
           ((n - 2^Log2(n)) * 2^(20 - Log2(n))) % 256,
           (((n - 2^Log2(n)) * 2^(20 - Log2(n))) \div 256) % 256,
           ((1023 + Log2(n)) % 16) * 16 + (((n - 2^Log2(n)) * 2^(20 - Log2(n))) \div 65536),
           (1023 + Log2(n)) \div 16>>

RECURSIVE Varint64(_, _)
\* The base-128 varint of a 64-bit two's complement number: at most 10 bytes.
Varint64(n, k) ==
    IF k = 10 THEN <<1>>
    ELSE IF n >= 0 /\ n < 128 THEN <<n>>
    ELSE <<128 + (n % 128)>> \o Varint64(n \div 128, k + 1)

Varint(n) == Varint64(n, 1)

\* Wire types 0 (varint), 1 (64-bit), 2 (length-delimited), 5 (32-bit).
Key(field, wire_type) == Varint(8 * field + wire_type)
LenField(field, bytes) == Key(field, 2) \o Varint(Len(bytes)) \o bytes
StringField(field, bytes) == IF bytes = <<>> THEN <<>> ELSE LenField(field, bytes)
IntField(field, n) == IF n = 0 THEN <<>> ELSE Key(field, 0) \o Varint(n)
BoolField(field, b) == IF b THEN Key(field, 0) \o <<1>> ELSE <<>>

EncodeDim(d) == IntField(1, d.size) \o StringField(2, d.name)

EncodeShape(sh) ==
    Concat([i \in 1..Len(sh.dim) |-> LenField(2, EncodeDim(sh.dim[i]))])
    \o BoolField(3, sh.unknown_rank)

EncodeTensor(t) ==
    IntField(1, t.dtype)
    \o LenField(2, EncodeShape(t.tensor_shape))
    \o IntField(3, t.version_number)
    \o StringField(4, t.tensor_content)
    \o Concat([i \in 1..Len(t.string_val) |-> LenField(8, t.string_val[i])])

\* HistogramProto, Image and Audio are opaque to the writer: an identifier.
EncodeOpaque(p) == IntField(1, p.id)

EncodePluginData(d) == StringField(1, d.plugin_name) \o StringField(2, d.content)

EncodeMetadata(m) ==
    (IF m.plugin_data.some THEN LenField(1, EncodePluginData(m.plugin_data.v))
                           ELSE <<>>)
    \o StringField(2, m.display_name)
    \o StringField(3, m.summary_description)
    \o IntField(4, m.data_class)

EncodeValueEnum(x) ==
    CASE x.kind = "SimpleValue" -> Key(2, 5) \o Float32(x.simple_value)
      [] x.kind = "Image" -> LenField(4, EncodeOpaque(x.image))
      [] x.kind = "Histo" -> LenField(5, EncodeOpaque(x.histo))
      [] x.kind = "Audio" -> LenField(6, EncodeOpaque(x.audio))
      [] x.kind = "Tensor" -> LenField(8, EncodeTensor(x.tensor))

EncodeValue(v) ==
    StringField(1, v.tag)
    \o EncodeValueEnum(v.value)
    \o StringField(7, v.node_name)
    \o (IF v.metadata.some THEN LenField(9, EncodeMetadata(v.metadata.v)) ELSE <<>>)

EncodeSummary(s) ==
    Concat([i \in 1..Len(s.value) |-> LenField(1, EncodeValue(s.value[i]))])

EncodeEvent(e) ==
    (IF e.wall_time = 0 THEN <<>> ELSE Key(1, 1) \o Float64(e.wall_time))
    \o IntField(2, e.step)
    \o (IF e.what.some THEN LenField(5, EncodeSummary(e.what.v)) ELSE <<>>)

(***************************************************************************)
(* 4.2 Record framer: the four byte ranges of a record, in the order they  *)
(* are handed to the sink.                                                 *)
(***************************************************************************)
\* A faulty framer: the checksum of the length stands for the payload's too.
RecordRanges_with_length_checksum_twice(payload) ==
    LET length == LittleEndian(Len(payload), 8)
    IN  << length, masked_crc32c(length), payload, masked_crc32c(length) >>

RecordRanges(payload) ==
    LET length == LittleEndian(Len(payload), 8)
    IN  << length, masked_crc32c(length), payload, masked_crc32c(payload) >>

Frame(payload) == Concat(RecordRanges(payload))

(***************************************************************************)
(* The byte sink (W: Write, or W: AsyncWriteExt + Unpin).  A call on the   *)
(* sink succeeds or fails; a write_all that fails may have handed over a   *)
(* proper prefix of its buffer.  A script names the sink call of one       *)
(* operation that fails (0: none; 1..4: that write_all of the record; 5:   *)
(* the flush) and the bytes it accepted before failing.                    *)
(***************************************************************************)
WriteCall(buf, ok, accepted) ==
    [call |-> "write_all", buf |-> buf, ok |-> ok, accepted |-> accepted]
FlushCall(ok) == [call |-> "flush", ok |-> ok]

NoFailure == [fail_at |-> 0, accepted |-> 0]
Scripts ==
    {NoFailure}
    \cup [fail_at : 1..4, accepted : 0..MaxPartial]
    \cup {[fail_at |-> 5, accepted |-> 0]}

IsWrite(c) == c.call = "write_all"
IsFlush(c) == c.call = "flush"
Failed(io) == {i \in 1..Len(io) : ~io[i].ok}

\* The bytes the sink took during the calls of io.
Accepted(io) ==
    Concat([i \in 1..Len(io) |->
              IF IsWrite(io[i]) THEN Take(io[i].buf, io[i].accepted) ELSE <<>>])

RECURSIVE FlushedAfter(_, _, _)
\* How much of the sink has been flushed once the calls of io are made.
FlushedAfter(len, fl, io) ==
    IF io = <<>> THEN fl
    ELSE LET c == Head(io)
         IN  IF IsWrite(c) THEN FlushedAfter(len + c.accepted, fl, Tail(io))
             ELSE FlushedAfter(len, IF c.ok THEN len ELSE fl, Tail(io))

\* The script names a failure the calls of io really met: a failing
\* write_all stops short of its buffer, and an empty buffer is never written.
Feasible(script, io) ==
    /\ (script.fail_at = 0) = (Failed(io) = {})
    /\ \A i \in Failed(io) :
          /\ i = script.fail_at
          /\ IsWrite(io[i]) => /\ io[i].accepted = script.accepted
                               /\ io[i].accepted < Len(io[i].buf)
    /\ script.fail_at = 0 => script.accepted = 0

(***************************************************************************)
(* RecordWriter<Event, W> (crate::writer) and write_record (4.2).          *)
(***************************************************************************)
\* A faulty write_record: the frame is put together first and handed to the
\* sink in one write_all.
write_record_batched(payload, script) ==
    [io |-> <<IF script.fail_at \in 1..4
              THEN WriteCall(Frame(payload), FALSE, script.accepted)
              ELSE WriteCall(Frame(payload), TRUE, Len(Frame(payload)))>>,
     result |-> IF script.fail_at \in 1..4 THEN Err("IoError") ELSE Ok("unit")]

write_record(payload, script) ==
    LET ranges == RecordRanges(payload)
        n == IF script.fail_at \in 1..4 THEN script.fail_at ELSE 4
    IN  [io |-> [i \in 1..n |->
                   IF i = script.fail_at
                   THEN WriteCall(ranges[i], FALSE, script.accepted)
                   ELSE WriteCall(ranges[i], TRUE, Len(ranges[i]))],
         result |-> IF script.fail_at \in 1..4 THEN Err("IoError") ELSE Ok("unit")]

\* RecordWriter::send: encode the event, then frame it.
send(event, script) == write_record(EncodeEvent(event), script)

\* RecordWriter::flush.
RecordWriter_flush(script) ==
    [io |-> <<FlushCall(script.fail_at # 5)>>,
     result |-> IF script.fail_at = 5 THEN Err("IoError") ELSE Ok("unit")]

(***************************************************************************)
(* src/src/summary/writer.rs: the blocking operations of EventWriter.      *)
(* Each yields the calls it makes on the sink, its result and the event    *)
(* it built.                                                               *)
(***************************************************************************)
\* A faulty write_event: it flushes whatever auto_flush says.
write_event_always_flushing(auto_flush, event, script) ==
    LET s == send(event, script)
        f == RecordWriter_flush(script)
    IN  IF ~s.result.ok THEN [io |-> s.io, result |-> s.result, event |-> Some(event)]
        ELSE IF ~f.result.ok
        THEN [io |-> s.io \o f.io, result |-> f.result, event |-> Some(event)]
        ELSE [io |-> s.io \o f.io, result |-> Ok("unit"), event |-> Some(event)]

\* A faulty write_event: the error of send is kept for after the flush.
write_event_flushing_despite_error(auto_flush, event, script) ==
    LET s == send(event, script)
        f == RecordWriter_flush(script)
    IN  IF auto_flush
        THEN [io |-> s.io \o f.io,
              result |-> IF ~s.result.ok THEN s.result ELSE f.result,
              event |-> Some(event)]
        ELSE [io |-> s.io, result |-> s.result, event |-> Some(event)]

\* A faulty write_event: the result of the flush is dropped.
write_event_ignoring_flush_error(auto_flush, event, script) ==
    LET s == send(event, script)
        f == RecordWriter_flush(script)
    IN  IF ~s.result.ok THEN [io |-> s.io, result |-> s.result, event |-> Some(event)]
        ELSE IF auto_flush
        THEN [io |-> s.io \o f.io, result |-> Ok("unit"), event |-> Some(event)]
        ELSE [io |-> s.io, result |-> Ok("unit"), event |-> Some(event)]

write_event(auto_flush, event, script) ==
    LET s == send(event, script)
        f == RecordWriter_flush(script)
    IN  IF ~s.result.ok THEN [io |-> s.io, result |-> s.result, event |-> Some(event)]
        ELSE IF auto_flush
        THEN IF ~f.result.ok
             THEN [io |-> s.io \o f.io, result |-> f.result, event |-> Some(event)]
             ELSE [io |-> s.io \o f.io, result |-> Ok("unit"), event |-> Some(event)]
        ELSE [io |-> s.io, result |-> Ok("unit"), event |-> Some(event)]

\* A faulty body of the typed write_*: a Summary without a Value is not
\* written.
write_summary_skipping_empty(auto_flush, summary, event_init, clk, script) ==
    IF ~summary.ok
    THEN [io |-> <<>>, result |-> Err(summary.err), event |-> NoneV]
    ELSE IF summary.v.value = <<>>
    THEN [io |-> <<>>, result |-> Ok("unit"), event |-> NoneV]
    ELSE write_event(auto_flush,
                     build_with_summary(into_EventInit(event_init), summary.v, clk),
                     script)

\* A faulty body of the typed write_*: the sink is flushed before the
\* conversion error is returned.
write_summary_flushing_on_error(auto_flush, summary, event_init, clk, script) ==
    IF ~summary.ok
    THEN [io |-> <<FlushCall(TRUE)>>, result |-> Err(summary.err), event |-> NoneV]
    ELSE write_event(auto_flush,
                     build_with_summary(into_EventInit(event_init), summary.v, clk),
                     script)

\* The body every typed write_* shares: `?` on the builder's result, then
\* build the event, send it and flush if auto_flush.
write_summary(auto_flush, summary, event_init, clk, script) ==
    IF ~summary.ok
    THEN [io |-> <<>>, result |-> Err(summary.err), event |-> NoneV]
    ELSE write_event(auto_flush,
                     build_with_summary(into_EventInit(event_init), summary.v, clk),
                     script)

write_scalar(auto_flush, tag, event_init, value, clk, script) ==
    write_summary(auto_flush, build_scalar(tag, value), event_init, clk, script)

write_text(auto_flush, tag, event_init, value, clk, script) ==
    write_summary(auto_flush, build_string(tag, value), event_init, clk, script)

write_histogram(auto_flush, tag, event_init, histogram, clk, script) ==
    write_summary(auto_flush, build_histogram(tag, histogram), event_init, clk, script)

write_tensor(auto_flush, tag, event_init, tensor, clk, script) ==
    write_summary(auto_flush, build_tensor(tag, tensor), event_init, clk, script)

write_image(auto_flush, tag, event_init, image, clk, script) ==
    write_summary(auto_flush, build_image(tag, image), event_init, clk, script)

write_image_list(auto_flush, tag, event_init, images, clk, script) ==
    write_summary(auto_flush, build_image_list(tag, images), event_init, clk, script)

write_audio(auto_flush, tag, event_init, audio, clk, script) ==
    write_summary(auto_flush, build_audio(tag, audio), event_init, clk, script)

flush(script) ==
    LET f == RecordWriter_flush(script)
    IN  [io |-> f.io, result |-> f.result, event |-> NoneV]

(***************************************************************************)
(* src/src/summary/writer.rs: the suspend-capable operations.  An          *)
(* operation in flight is suspended in a call on the sink that is         *)
(* pending: at pc, the write_all of range pc of the record (1..4), of      *)
(* which the sink has taken the first `taken` bytes, or the flush (5).     *)
(***************************************************************************)
InFlight(op, call, event, clk, ranges, pc, before) ==
    [op |-> op, call |-> call, event |-> event, clk |-> clk, ranges |-> ranges,
     pc |-> pc, taken |-> 0, io |-> <<>>, before |-> before]

\* A faulty future: a write is done with its frame, it never flushes.
resume_never_flushing(auto_flush, f, ok, accepted) ==
    IF f.pc \in 1..4
    THEN LET buf == f.ranges[f.pc]
             c == WriteCall(buf, ok, IF ok THEN Len(buf) ELSE accepted)
         IN  IF ~ok THEN [call |-> c, done |-> TRUE, result |-> Err("IoError"), pc |-> f.pc]
             ELSE IF f.pc < 4
             THEN [call |-> c, done |-> FALSE, result |-> Ok("unit"), pc |-> f.pc + 1]
             ELSE [call |-> c, done |-> TRUE, result |-> Ok("unit"), pc |-> f.pc]
    ELSE [call |-> FlushCall(ok), done |-> TRUE,
          result |-> IF ok THEN Ok("unit") ELSE Err("IoError"), pc |-> f.pc]

\* A faulty future: the checksum of the length is left out of the record.
resume_without_length_checksum(auto_flush, f, ok, accepted) ==
    IF f.pc \in 1..4
    THEN LET buf == f.ranges[f.pc]
             c == WriteCall(buf, ok, IF ok THEN Len(buf) ELSE accepted)
         IN  IF ~ok THEN [call |-> c, done |-> TRUE, result |-> Err("IoError"), pc |-> f.pc]
             ELSE IF f.pc = 1
             THEN [call |-> c, done |-> FALSE, result |-> Ok("unit"), pc |-> 3]
             ELSE IF f.pc < 4
             THEN [call |-> c, done |-> FALSE, result |-> Ok("unit"), pc |-> f.pc + 1]
             ELSE IF auto_flush
             THEN [call |-> c, done |-> FALSE, result |-> Ok("unit"), pc |-> 5]
             ELSE [call |-> c, done |-> TRUE, result |-> Ok("unit"), pc |-> f.pc]
    ELSE [call |-> FlushCall(ok), done |-> TRUE,
          result |-> IF ok THEN Ok("unit") ELSE Err("IoError"), pc |-> f.pc]

\* send_async(event).await?, then, if auto_flush, flush_async().await?: what
\* the future does when the sink call it waits for at f.pc ends with `ok`.
resume(auto_flush, f, ok, accepted) ==
    IF f.pc \in 1..4
    THEN LET buf == f.ranges[f.pc]
             c == WriteCall(buf, ok, IF ok THEN Len(buf) ELSE accepted)
         IN  IF ~ok THEN [call |-> c, done |-> TRUE, result |-> Err("IoError"), pc |-> f.pc]
             ELSE IF f.pc < 4
             THEN [call |-> c, done |-> FALSE, result |-> Ok("unit"), pc |-> f.pc + 1]
             ELSE IF auto_flush
             THEN [call |-> c, done |-> FALSE, result |-> Ok("unit"), pc |-> 5]
             ELSE [call |-> c, done |-> TRUE, result |-> Ok("unit"), pc |-> f.pc]
    ELSE [call |-> FlushCall(ok), done |-> TRUE,
          result |-> IF ok THEN Ok("unit") ELSE Err("IoError"), pc |-> f.pc]

(***************************************************************************)
(* The state.                                                              *)
(*   writer    the EventWriter: NoneV before construction, else            *)
(*             Some([auto_flush, kind]), kind "blocking" or "async"        *)
(*   sink      the bytes the sink has accepted, in order                   *)
(*   flushed   how many of them a successful flush has pushed out          *)
(*   now       the reading of the system clock                             *)
(*   inflight  the suspend-capable operation in flight, if any             *)
(*   faults    sink calls that failed and operations abandoned so far      *)
(*   history   one entry per operation that has ended                      *)
(*   ctor      one entry per constructor call                              *)
(*   fs        the directories and files the constructors created          *)
(*   probe     the input and the output of a builder applied on its own    *)
(***************************************************************************)
VARIABLES writer, sink, flushed, now, inflight, faults, history, ctor, fs, probe

vars == <<writer, sink, flushed, now, inflight, faults, history, ctor, fs, probe>>

EventWriter(auto_flush, kind) == [auto_flush |-> auto_flush, kind |-> kind]

\* EventWriterInit::default.
EventWriterInit_default == [auto_flush |-> TRUE]

\* EventWriterInit::from_writer and from_async_writer.
from_writer(init) == Ok(EventWriter(init.auto_flush, "blocking"))
from_async_writer(init) == Ok(EventWriter(init.auto_flush, "async"))

(***************************************************************************)
(* Paths (std::path on a system whose MAIN_SEPARATOR is '/').  A path is   *)
(* the bytes of its text.                                                  *)
(***************************************************************************)
\* '/' and '.'
MAIN_SEPARATOR == 47
S_dot == <<46>>
S_dotdot == <<46, 46>>
\* ".out.tfevents."
S_out_tfevents == <<46, 111, 117, 116, 46, 116, 102, 101, 118, 101, 110, 116, 115, 46>>

RECURSIVE Segments(_, _, _)
\* The text between the separators of path[i..], cur being the segment begun.
Segments(path, i, cur) ==
    IF i > Len(path) THEN <<cur>>
    ELSE IF path[i] = MAIN_SEPARATOR THEN <<cur>> \o Segments(path, i + 1, <<>>)
    ELSE Segments(path, i + 1, Append(cur, path[i]))

RECURSIVE Named(_, _)
\* Path::components without the root: empty segments go, and so does every
\* "." but a leading one.
Named(segs, i) ==
    IF i > Len(segs) THEN <<>>
    ELSE IF segs[i] = <<>> \/ (segs[i] = S_dot /\ i > 1) THEN Named(segs, i + 1)
    ELSE <<segs[i]>> \o Named(segs, i + 1)

has_root(path) == path # <<>> /\ path[1] = MAIN_SEPARATOR
components(path) == Named(Segments(path, 1, <<>>), 1)

RECURSIVE Joined(_, _)
Joined(names, i) ==
    IF i > Len(names) THEN <<>>
    ELSE IF i = Len(names) THEN names[i]
    ELSE names[i] \o <<MAIN_SEPARATOR>> \o Joined(names, i + 1)

\* Path::file_name: the final component, if it is a normal one.
file_name(path) ==
    IF components(path) = <<>> THEN NoneV
    ELSE IF components(path)[Len(components(path))] \in {S_dot, S_dotdot} THEN NoneV
    ELSE Some(components(path)[Len(components(path))])

\* Path::parent: the path without its final component; none for a root and
\* for the empty path.
parent(path) ==
    IF components(path) = <<>> THEN NoneV
    ELSE Some((IF has_root(path) THEN <<MAIN_SEPARATOR>> ELSE <<>>)
              \o Joined(SubSeq(components(path), 1, Len(components(path)) - 1), 1))

\* Path::join with a relative path.
join(dir, name) ==
    IF dir = <<>> THEN name
    ELSE IF dir[Len(dir)] = MAIN_SEPARATOR THEN dir \o name
    ELSE dir \o <<MAIN_SEPARATOR>> \o name

\* The directories create_dir_all makes for dir: dir and its ancestors.
Ancestors(dir) ==
    {(IF has_root(dir) THEN <<MAIN_SEPARATOR>> ELSE <<>>)
       \o Joined(SubSeq(components(dir), 1, k), 1) : k \in 1..Len(components(dir))}

(***************************************************************************)
(* src/src/summary/writer.rs: EventWriterInit, the constructors.  The      *)
(* environment of a constructor call: the reading clk of the clock, host   *)
(* (what hostname::get gives), dir_ok and file_ok (whether create_dir_all  *)
(* and File::create succeed).  Each constructor yields its result, the     *)
(* calls it made on the environment (effects) and what it created.         *)
(***************************************************************************)
\* std::io::Error into Error (crate::error), as `?` converts it.
From_io_Error == "IoError"

\* hostname::get(): an OsString, or an I/O error.
HostName(name) == [ok |-> TRUE, unicode |-> TRUE, name |-> name]
HostNotUnicode == [ok |-> TRUE, unicode |-> FALSE]
HostUnknown == [ok |-> FALSE]

\* duration_since(UNIX_EPOCH).unwrap().as_micros() of a clock that reads
\* whole seconds.
as_micros(time) == time * 1000000

\* A faulty split: the directory of a prefix that names a file is the whole
\* prefix, not its parent.
split_prefix_keeping_dir(prefix) ==
    IF prefix # <<>> /\ prefix[Len(prefix)] = MAIN_SEPARATOR
    THEN [dir_prefix |-> prefix, file_name_prefix |-> S_empty]
    ELSE [dir_prefix |-> prefix,
          file_name_prefix |-> IF file_name(prefix).some THEN file_name(prefix).v
                                                         ELSE S_empty]

\* The match on the prefix's last char: a prefix that ends in the separator
\* is the directory; of any other, the directory is path.parent(), or the
\* path if it has none, and the prefix of the file name is path.file_name(),
\* or "" if it has none.
split_prefix(prefix) ==
    IF prefix # <<>> /\ prefix[Len(prefix)] = MAIN_SEPARATOR
    THEN [dir_prefix |-> prefix, file_name_prefix |-> S_empty]
    ELSE [dir_prefix |-> IF parent(prefix).some THEN parent(prefix).v ELSE prefix,
          file_name_prefix |-> IF file_name(prefix).some THEN file_name(prefix).v
                                                         ELSE S_empty]

\* A faulty host_name: every failure to name the host is a UnicodeError.
host_name_always_unicode_error(host) ==
    IF ~host.ok THEN Err("UnicodeError")
    ELSE IF ~host.unicode THEN Err("UnicodeError")
    ELSE Ok(host.name)

\* hostname::get()?.into_string().map_err(|_| UnicodeError)?: the error of
\* the lookup goes through From, the OsString that is not Unicode becomes
\* a UnicodeError.
host_name(host) ==
    IF ~host.ok THEN Err(From_io_Error)
    ELSE IF ~host.unicode THEN Err("UnicodeError")
    ELSE Ok(host.name)

\* create_tf_style_path from the match on the prefix's last char on: the
\* split, then the clock, then the host name, then the file name.
tf_style_path(prefix, file_name_suffix, clk, host) ==
    LET split == split_prefix(prefix)
        suffix == IF file_name_suffix.some THEN file_name_suffix.v ELSE S_empty
    IN  IF ~host_name(host).ok
        THEN [result |-> host_name(host),
              effects |-> <<"SystemTime::now", "hostname::get">>]
        ELSE [result |-> Ok([dir_prefix |-> split.dir_prefix,
                             file_name |-> split.file_name_prefix \o S_out_tfevents
                                             \o Decimal(as_micros(clk)) \o S_dot
                                             \o host_name(host).v \o suffix]),
              effects |-> <<"SystemTime::now", "hostname::get">>]

\* A faulty create_tf_style_path: the empty prefix is not looked for.
create_tf_style_path_unchecked(prefix, file_name_suffix, clk, host) ==
    tf_style_path(prefix, file_name_suffix, clk, host)

create_tf_style_path(prefix, file_name_suffix, clk, host) ==
    IF prefix = <<>>
    THEN [result |-> Err("InvalidArgumentsError"), effects |-> <<>>]
    ELSE tf_style_path(prefix, file_name_suffix, clk, host)

Made(result, effects, dirs, files) ==
    [result |-> result, effects |-> effects, dirs |-> dirs, files |-> files]

\* EventWriterInit::create and create_async: File::create(path)?, then the
\* writer over a BufWriter on the file.
create(init, path, file_ok) ==
    IF ~file_ok THEN Made(Err(From_io_Error), <<"File::create">>, {}, {})
    ELSE Made(from_writer(init), <<"File::create">>, {}, {path})

create_async(init, path, file_ok) ==
    IF ~file_ok THEN Made(Err(From_io_Error), <<"File::create">>, {}, {})
    ELSE Made(from_async_writer(init), <<"File::create">>, {}, {path})

\* fs::create_dir_all(dir): nothing to do for the empty path.
create_dir_all(dir, dir_ok) ==
    IF dir = <<>> THEN Made(Ok("unit"), <<"create_dir_all">>, {}, {})
    ELSE IF ~dir_ok THEN Made(Err(From_io_Error), <<"create_dir_all">>, {}, {})
    ELSE Made(Ok("unit"), <<"create_dir_all">>, Ancestors(dir), {})

\* from_prefix and from_prefix_async: resolve the path `?`, create the
\* directory `?`, create the file.
from_prefix_with(opened, resolved, dir_ok) ==
    IF ~resolved.result.ok
    THEN Made(resolved.result, resolved.effects, {}, {})
    ELSE IF ~create_dir_all(resolved.result.v.dir_prefix, dir_ok).result.ok
    THEN Made(create_dir_all(resolved.result.v.dir_prefix, dir_ok).result,
              resolved.effects \o <<"create_dir_all">>, {}, {})
    ELSE Made(opened.result,
              resolved.effects \o <<"create_dir_all">> \o opened.effects,
              create_dir_all(resolved.result.v.dir_prefix, dir_ok).dirs,
              opened.files)

from_prefix(init, prefix, file_name_suffix, clk, host, dir_ok, file_ok) ==
    from_prefix_with(
        create(init,
               join(create_tf_style_path(prefix, file_name_suffix, clk, host).result.v.dir_prefix,
                    create_tf_style_path(prefix, file_name_suffix, clk, host).result.v.file_name),
               file_ok),
        create_tf_style_path(prefix, file_name_suffix, clk, host), dir_ok)

from_prefix_async(init, prefix, file_name_suffix, clk, host, dir_ok, file_ok) ==
    from_prefix_with(
        create_async(init,
               join(create_tf_style_path(prefix, file_name_suffix, clk, host).result.v.dir_prefix,
                    create_tf_style_path(prefix, file_name_suffix, clk, host).result.v.file_name),
               file_ok),
        create_tf_style_path(prefix, file_name_suffix, clk, host), dir_ok)

(***************************************************************************)
(* The inputs of the writer's operations.                                  *)
(***************************************************************************)
\* "a"
Tags == {Str(<<97>>)}
\* A step alone (the wall time is the clock's), and a step with a wall time
\* that is earlier than the step and later than any reading of the clock.
StepOnly == {FromStep(1)}
EventInits == StepOnly \cup {FromStepWall(0, 9)}
Scalars == {3}
\* "hi"
Texts == {Str(<<104, 105>>)}
Histograms == {Convertible([id |-> 1]), Inconvertible}
Tensors == {Convertible(TensorProto(1, <<[size |-> 2, name |-> S_empty]>>, <<>>, <<7, 8>>)),
            Inconvertible}
Images == {Convertible([id |-> 1]), Inconvertible}
ImageLists == {<<>>, <<Convertible([id |-> 1])>>,
               <<Convertible([id |-> 1]), Convertible([id |-> 2])>>,
               <<Convertible([id |-> 1]), Inconvertible>>}
Audios == {Convertible([id |-> 1]), Inconvertible}
Events == {[wall_time |-> 0, step |-> 0, what |-> NoneV],
           [wall_time |-> 3, step |-> 2, what |-> NoneV]}

(***************************************************************************)
(* The blocking operations as steps of the writer.                         *)
(***************************************************************************)
Entry(op, kind, call, clk, before, out) ==
    [op |-> op, kind |-> kind, call |-> call, clk |-> clk, before |-> before,
     auto_flush |-> writer.v.auto_flush,
     event |-> out.event, io |-> out.io, result |-> out.result]

Idle == writer.some /\ ~inflight.some /\ Len(history) < MaxOps
CanBlock == Idle /\ writer.v.kind = "blocking"
CanSuspend == Idle /\ writer.v.kind = "async"

Commit(op, call, script, out) ==
    /\ Feasible(script, out.io)
    /\ faults + Cardinality(Failed(out.io)) <= MaxFaults
    /\ sink' = sink \o Accepted(out.io)
    /\ flushed' = FlushedAfter(Len(sink), flushed, out.io)
    /\ faults' = faults + Cardinality(Failed(out.io))
    /\ history' = Append(history, Entry(op, "blocking", call, now, sink, out))
    /\ UNCHANGED <<writer, now, inflight, ctor, fs, probe>>

\* The scripts the sink may still follow: one that fails needs a fault left.
Sink == IF faults < MaxFaults THEN Scripts ELSE {NoFailure}

Call(tag, event_init, value) == [tag |-> tag, event_init |-> event_init, value |-> value]

WriteScalar ==
    /\ CanBlock
    /\ \E tag \in Tags, ei \in EventInits, v \in Scalars, sc \in Sink :
          \E out \in {write_scalar(writer.v.auto_flush, tag, ei, v, now, sc)} :
             Commit("write_scalar", Call(tag, ei, v), sc, out)

WriteText ==
    /\ CanBlock
    /\ \E tag \in Tags, ei \in StepOnly, v \in Texts, sc \in Sink :
          \E out \in {write_text(writer.v.auto_flush, tag, ei, v, now, sc)} :
             Commit("write_text", Call(tag, ei, v), sc, out)

WriteHistogram ==
    /\ CanBlock
    /\ \E tag \in Tags, ei \in StepOnly, v \in Histograms, sc \in Sink :
          \E out \in {write_histogram(writer.v.auto_flush, tag, ei, v, now, sc)} :
             Commit("write_histogram", Call(tag, ei, v), sc, out)

WriteTensor ==
    /\ CanBlock
    /\ \E tag \in Tags, ei \in StepOnly, v \in Tensors, sc \in Sink :
          \E out \in {write_tensor(writer.v.auto_flush, tag, ei, v, now, sc)} :
             Commit("write_tensor", Call(tag, ei, v), sc, out)

WriteImage ==
    /\ CanBlock
    /\ \E tag \in Tags, ei \in StepOnly, v \in Images, sc \in Sink :
          \E out \in {write_image(writer.v.auto_flush, tag, ei, v, now, sc)} :
             Commit("write_image", Call(tag, ei, v), sc, out)

WriteImageList ==
    /\ CanBlock
    /\ \E tag \in Tags, ei \in StepOnly, v \in ImageLists, sc \in Sink :
          \E out \in {write_image_list(writer.v.auto_flush, tag, ei, v, now, sc)} :
             Commit("write_image_list", Call(tag, ei, v), sc, out)

WriteAudio ==
    /\ CanBlock
    /\ \E tag \in Tags, ei \in StepOnly, v \in Audios, sc \in Sink :
          \E out \in {write_audio(writer.v.auto_flush, tag, ei, v, now, sc)} :
             Commit("write_audio", Call(tag, ei, v), sc, out)

WriteEvent ==
    /\ CanBlock
    /\ \E e \in Events, sc \in Sink :
          \E out \in {write_event(writer.v.auto_flush, e, sc)} :
             Commit("write_event", [event |-> e], sc, out)

Flush ==
    /\ CanBlock
    /\ \E sc \in {NoFailure, [fail_at |-> 5, accepted |-> 0]} :
          \E out \in {flush(sc)} : Commit("flush", [none |-> TRUE], sc, out)

(***************************************************************************)
(* The suspend-capable operations as steps: the first poll builds the      *)
(* event, each later one ends one call on the sink.                        *)
(***************************************************************************)
\* The first poll of a typed write_*_async: `?` on the builder's result.
Begin(op, call, built, event_init) ==
    IF ~built.ok
    THEN /\ history' = Append(history,
                Entry(op, "async", call, now, sink,
                      [io |-> <<>>, result |-> Err(built.err), event |-> NoneV]))
         /\ UNCHANGED <<writer, sink, flushed, now, inflight, faults, ctor, fs, probe>>
    ELSE LET built_event == build_with_summary(into_EventInit(event_init), built.v, now)
         IN  /\ inflight' = Some(InFlight(op, call, Some(built_event), now,
                                          RecordRanges(EncodeEvent(built_event)), 1, sink))
             /\ UNCHANGED <<writer, sink, flushed, now, faults, history, ctor, fs, probe>>

WriteScalarAsync ==
    /\ CanSuspend
    /\ \E tag \in Tags, ei \in EventInits, v \in Scalars :
          Begin("write_scalar", Call(tag, ei, v), build_scalar(tag, v), ei)

WriteTextAsync ==
    /\ CanSuspend
    /\ \E tag \in Tags, ei \in StepOnly, v \in Texts :
          Begin("write_text", Call(tag, ei, v), build_string(tag, v), ei)

WriteHistogramAsync ==
    /\ CanSuspend
    /\ \E tag \in Tags, ei \in StepOnly, v \in Histograms :
          Begin("write_histogram", Call(tag, ei, v), build_histogram(tag, v), ei)

WriteTensorAsync ==
    /\ CanSuspend
    /\ \E tag \in Tags, ei \in StepOnly, v \in Tensors :
          Begin("write_tensor", Call(tag, ei, v), build_tensor(tag, v), ei)

WriteImageAsync ==
    /\ CanSuspend
    /\ \E tag \in Tags, ei \in StepOnly, v \in Images :
          Begin("write_image", Call(tag, ei, v), build_image(tag, v), ei)

WriteImageListAsync ==
    /\ CanSuspend
    /\ \E tag \in Tags, ei \in StepOnly, v \in ImageLists :
          Begin("write_image_list", Call(tag, ei, v), build_image_list(tag, v), ei)

WriteAudioAsync ==
    /\ CanSuspend
    /\ \E tag \in Tags, ei \in StepOnly, v \in Audios :
          Begin("write_audio", Call(tag, ei, v), build_audio(tag, v), ei)

WriteEventAsync ==
    /\ CanSuspend
    /\ \E e \in Events :
          /\ inflight' = Some(InFlight("write_event", [event |-> e], Some(e), now,
                                       RecordRanges(EncodeEvent(e)), 1, sink))
          /\ UNCHANGED <<writer, sink, flushed, now, faults, history, ctor, fs, probe>>

FlushAsync ==
    /\ CanSuspend
    /\ inflight' = Some(InFlight("flush", [none |-> TRUE], NoneV, now, <<>>, 5, sink))
    /\ UNCHANGED <<writer, sink, flushed, now, faults, history, ctor, fs, probe>>

\* The sink takes some more of the buffer of the pending write_all, not all
\* of it, and is not ready for the rest: the operation stays suspended.
Suspend ==
    /\ writer.some /\ inflight.some
    /\ inflight.v.pc \in 1..4
    /\ \E taken \in (inflight.v.taken + 1)..MaxPartial :
          /\ taken < Len(inflight.v.ranges[inflight.v.pc])
          /\ sink' = sink \o SubSeq(inflight.v.ranges[inflight.v.pc],
                                    inflight.v.taken + 1, taken)
          /\ inflight' = Some([inflight.v EXCEPT !.taken = taken])
    /\ UNCHANGED <<writer, flushed, now, faults, history, ctor, fs, probe>>

\* The sink ends the call the operation in flight waits for.
Poll ==
    /\ writer.some /\ inflight.some
    /\ LET f == inflight.v
       IN  \E ok \in BOOLEAN, accepted \in 0..MaxPartial :
             LET r == resume(writer.v.auto_flush, f, ok, accepted)
                 io == Append(f.io, r.call)
             IN  /\ ok => accepted = 0
                 /\ ~ok => faults < MaxFaults
                 /\ (~ok /\ IsWrite(r.call)) => /\ accepted < Len(r.call.buf)
                                               /\ accepted >= f.taken
                 /\ (~ok /\ IsFlush(r.call)) => accepted = 0
                 /\ sink' = sink \o Drop(Accepted(<<r.call>>), f.taken)
                 /\ flushed' = FlushedAfter(Len(sink), flushed, <<r.call>>)
                 /\ faults' = IF ok THEN faults ELSE faults + 1
                 /\ IF r.done
                    THEN /\ inflight' = NoneV
                         /\ history' = Append(history,
                               Entry(f.op, "async", f.call, f.clk, f.before,
                                     [io |-> io, result |-> r.result, event |-> f.event]))
                    ELSE /\ inflight' = Some([f EXCEPT !.pc = r.pc, !.taken = 0,
                                                       !.io = io])
                         /\ UNCHANGED history
                 /\ UNCHANGED <<writer, now, ctor, fs, probe>>

\* The caller drops the future of the operation in flight.
Abandon ==
    /\ writer.some /\ inflight.some
    /\ faults < MaxFaults
    /\ faults' = faults + 1
    /\ LET f == inflight.v
       IN  /\ inflight' = NoneV
           /\ history' = Append(history,
                 Entry(f.op, "async", f.call, f.clk, f.before,
                       [io |-> f.io, result |-> Err("Abandoned"), event |-> f.event]))
    /\ UNCHANGED <<writer, sink, flushed, now, ctor, fs, probe>>

\* Time passes.  (The clock is read when an operation starts: a tick while one
\* is in flight, or after the last one, is a tick nobody sees.)
Tick ==
    /\ Idle
    /\ now < MaxClock
    /\ now' = now + 1
    /\ UNCHANGED <<writer, sink, flushed, inflight, faults, history, ctor, fs, probe>>

NoProbe == [fn |-> "none"]

\* The state after construction from a sink (from_writer, from_async_writer),
\* with either setting of auto_flush.
Init ==
    /\ writer \in {Some(from_writer([auto_flush |-> af]).v) : af \in BOOLEAN}
                  \cup {Some(from_async_writer([auto_flush |-> af]).v) : af \in BOOLEAN}
    /\ sink = <<>>
    /\ flushed = 0
    /\ now = 1
    /\ inflight = NoneV
    /\ faults = 0
    /\ history = <<>>
    /\ ctor = <<>>
    /\ fs = [dirs |-> {}, files |-> {}]
    /\ probe = NoProbe

Next ==
    \/ WriteScalar \/ WriteText \/ WriteHistogram \/ WriteTensor \/ WriteImage
    \/ WriteImageList \/ WriteAudio \/ WriteEvent \/ Flush
    \/ WriteScalarAsync \/ WriteTextAsync \/ WriteHistogramAsync
    \/ WriteTensorAsync \/ WriteImageAsync \/ WriteImageListAsync
    \/ WriteAudioAsync \/ WriteEventAsync \/ FlushAsync
    \/ Suspend \/ Poll \/ Abandon \/ Tick

Spec == Init /\ [][Next]_vars

(***************************************************************************)
(* A reader of the sink (4.2, 6): frame after frame, the length, its       *)
(* checksum, the payload, its checksum; it stops at the first frame that   *)
(* is cut short or fails a check.                                          *)
(***************************************************************************)
RECURSIVE FromLittleEndian(_)
FromLittleEndian(bytes) ==
    IF bytes = <<>> THEN 0 ELSE bytes[1] + 256 * FromLittleEndian(Tail(bytes))

\* The length of the frame bytes starts with, or -1 if its start is cut
\* short or its length fails the check.
ReadLength(bytes) ==
    IF Len(bytes) < 12 THEN -1
    ELSE IF masked_crc32c(SubSeq(bytes, 1, 8)) # SubSeq(bytes, 9, 12) THEN -1
    ELSE FromLittleEndian(SubSeq(bytes, 1, 8))

\* Whether bytes starts with a whole frame that passes both checks.
ReadsFrame(bytes) ==
    /\ ReadLength(bytes) >= 0
    /\ Len(bytes) >= 16 + ReadLength(bytes)
    /\ masked_crc32c(SubSeq(bytes, 13, 12 + ReadLength(bytes)))
         = SubSeq(bytes, 13 + ReadLength(bytes), 16 + ReadLength(bytes))

RECURSIVE ReadFrames(_)
\* The payloads read, and the bytes left where the reader stopped.
ReadFrames(bytes) ==
    IF ~ReadsFrame(bytes) THEN [payloads |-> <<>>, rest |-> bytes]
    ELSE [payloads |-> <<SubSeq(bytes, 13, 12 + ReadLength(bytes))>>
                         \o ReadFrames(Drop(bytes, 16 + ReadLength(bytes))).payloads,
          rest |-> ReadFrames(Drop(bytes, 16 + ReadLength(bytes))).rest]

(***************************************************************************)
(* Properties of the writer's operations, under Spec.                      *)
(***************************************************************************)
IsWriteOp(h) == h.op # "flush"

RECURSIVE OkWrites(_)
\* The write operations of hist that returned Ok, in call order.
OkWrites(hist) ==
    IF hist = <<>> THEN <<>>
    ELSE IF IsWriteOp(Head(hist)) /\ Head(hist).result.ok
    THEN <<Head(hist)>> \o OkWrites(Tail(hist))
    ELSE OkWrites(Tail(hist))

\* C1: when N write operations have returned Ok on a writer whose sink never
\* failed, the sink holds exactly N frames and no other byte, each passes
\* both checksum checks, and the i-th frame holds the event of the i-th
\* successful write (the Summary of write_image_list with no image too).
C1_FramesInCallOrder ==
    (~inflight.some /\ faults = 0) =>
        /\ Len(ReadFrames(sink).payloads) = Len(OkWrites(history))
        /\ ReadFrames(sink).rest = <<>>
        /\ \A i \in 1..Len(OkWrites(history)) :
              ReadFrames(sink).payloads[i] = EncodeEvent(OkWrites(history)[i].event.v)

\* Two successful writes, the first of an image list without images, the
\* second of an image list with two: two frames.
C1_Witness ==
    /\ ~inflight.some /\ faults = 0
    /\ Len(history) = 2
    /\ history[1].op = "write_image_list" /\ history[1].call.value = <<>>
    /\ history[1].result.ok
    /\ history[2].op = "write_image_list" /\ Len(history[2].call.value) = 2
    /\ history[2].result.ok
    /\ Len(ReadFrames(sink).payloads) = 2

Flushes(io) == {k \in 1..Len(io) : IsFlush(io[k])}

\* The value of a histogram, tensor, image, image-list or audio write that
\* does not convert.
Unconvertible(h) ==
    \/ /\ h.op \in {"write_histogram", "write_tensor", "write_image", "write_audio"}
       /\ ~h.call.value.ok
    \/ /\ h.op = "write_image_list"
       /\ \E k \in 1..Len(h.call.value) : ~h.call.value[k].ok

\* C2: with auto_flush a write that returns Ok has flushed the sink once, as
\* its last call and after the four ranges of its frame; without auto_flush
\* no write flushes, so nothing is flushed before a flush operation succeeds;
\* and every operation has run under the flag the writer still has.
C2_AutoFlush ==
    /\ \A i \in 1..Len(history) :
          /\ history[i].auto_flush = writer.v.auto_flush
          /\ (IsWriteOp(history[i]) /\ history[i].auto_flush /\ history[i].result.ok) =>
                /\ Len(history[i].io) = 5
                /\ Flushes(history[i].io) = {5}
                /\ \A k \in 1..5 : history[i].io[k].ok
                /\ \A k \in 1..4 : history[i].io[k].accepted = Len(history[i].io[k].buf)
          /\ (IsWriteOp(history[i]) /\ ~history[i].auto_flush) =>
                Flushes(history[i].io) = {}
    /\ (~writer.v.auto_flush
          /\ \A i \in 1..Len(history) : IsWriteOp(history[i]) \/ ~history[i].result.ok)
       => flushed = 0
    /\ (inflight.some /\ inflight.v.op # "flush" /\ ~writer.v.auto_flush) =>
          Flushes(inflight.v.io) = {}

\* Two writes under auto_flush, each followed by its flush: both frames are
\* flushed.
C2_Witness ==
    /\ writer.v.auto_flush
    /\ Len(history) = 2
    /\ history[1].op = "write_text" /\ history[1].result.ok
    /\ history[2].op = "write_scalar" /\ history[2].result.ok
    /\ Flushes(history[2].io) = {5}
    /\ flushed = Len(sink) /\ flushed > 0

\* Writes without auto_flush leave the sink unflushed.
C2_WitnessNoFlush ==
    /\ ~writer.v.auto_flush
    /\ Len(history) = 2
    /\ history[1].op = "write_text" /\ history[1].result.ok
    /\ history[2].op = "write_event" /\ history[2].result.ok
    /\ flushed = 0 /\ Len(sink) > 0

\* The operation that ends in this step, if one does.
Ends == Len(history') = Len(history) + 1
Ended == history'[Len(history')]

\* C3: a histogram, tensor, image, image-list or audio write whose value
\* does not convert returns the conversion error, makes no call on the sink
\* (no write, no flush) and leaves the writer, the sink and what is flushed
\* as they were, so that what follows starts from the state before the call.
C3_Step ==
    (Ends /\ Unconvertible(Ended)) =>
        /\ Ended.result = [ok |-> FALSE, err |-> "ConversionError"]
        /\ Ended.io = <<>>
        /\ Ended.before = sink
        /\ sink' = sink
        /\ flushed' = flushed
        /\ writer' = writer
        /\ inflight' = inflight
        /\ faults' = faults

C3_ConversionFailure == [][C3_Step]_vars

\* An image list with an image that does not convert has failed, and the
\* write after it has put its frame at the start of the sink.
C3_Witness ==
    /\ Len(history) = 2
    /\ history[1].op = "write_image_list" /\ Unconvertible(history[1])
    /\ ~history[1].result.ok
    /\ history[2].op = "write_histogram" /\ history[2].result.ok
    /\ history[2].before = <<>>
    /\ Len(ReadFrames(sink).payloads) = 1

\* The event a write frames, as the bytes of its whole frame.
FrameOf(h) == Frame(EncodeEvent(h.event.v))

\* C4: when a write_all of a frame fails, the write returns the I/O error
\* and that call is its last (no further write, no flush, no second try):
\* the calls it made are the ranges of the frame up to the failed one, once
\* each, and the sink holds what it held before followed by less than the
\* whole frame.
C4_Step ==
    (Ends /\ IsWriteOp(Ended) /\ \E k \in Failed(Ended.io) : IsWrite(Ended.io[k])) =>
        /\ Ended.result = [ok |-> FALSE, err |-> "IoError"]
        /\ Failed(Ended.io) = {Len(Ended.io)}
        /\ Flushes(Ended.io) = {}
        /\ Len(Ended.io) <= 4
        /\ \A k \in 1..Len(Ended.io) :
              Ended.io[k].buf = RecordRanges(EncodeEvent(Ended.event.v))[k]
        /\ sink' = Ended.before \o Accepted(Ended.io)
        /\ IsPrefix(Accepted(Ended.io), FrameOf(Ended))
        /\ Len(Accepted(Ended.io)) < Len(FrameOf(Ended))
        /\ flushed' = flushed

C4_SinkWriteFailure == [][C4_Step]_vars

\* After a whole frame, the payload of the next write was cut after its
\* first byte: the sink holds the frame and 13 bytes more.
C4_Witness ==
    /\ Len(history) = 2
    /\ history[1].op = "write_scalar" /\ history[1].result.ok
    /\ history[2].op = "write_text" /\ ~history[2].result.ok
    /\ Len(history[2].io) = 3
    /\ history[2].io[3].accepted = 1
    /\ Len(ReadFrames(sink).payloads) = 1
    /\ Len(ReadFrames(sink).rest) = 13

\* What the sink did to the calls of io, as a script for a blocking call.
ScriptOf(io) ==
    IF Failed(io) = {} THEN NoFailure
    ELSE IF IsFlush(io[Len(io)]) THEN [fail_at |-> 5, accepted |-> 0]
    ELSE [fail_at |-> Len(io), accepted |-> io[Len(io)].accepted]

\* The blocking operation of the same name on the same arguments, at the
\* same reading of the clock, against a sink that does the same.
Blocking(h) ==
    CASE h.op = "write_scalar" ->
           write_scalar(h.auto_flush, h.call.tag, h.call.event_init, h.call.value,
                        h.clk, ScriptOf(h.io))
      [] h.op = "write_text" ->
           write_text(h.auto_flush, h.call.tag, h.call.event_init, h.call.value,
                      h.clk, ScriptOf(h.io))
      [] h.op = "write_histogram" ->
           write_histogram(h.auto_flush, h.call.tag, h.call.event_init, h.call.value,
                           h.clk, ScriptOf(h.io))
      [] h.op = "write_tensor" ->
           write_tensor(h.auto_flush, h.call.tag, h.call.event_init, h.call.value,
                        h.clk, ScriptOf(h.io))
      [] h.op = "write_image" ->
           write_image(h.auto_flush, h.call.tag, h.call.event_init, h.call.value,
                       h.clk, ScriptOf(h.io))
      [] h.op = "write_image_list" ->
           write_image_list(h.auto_flush, h.call.tag, h.call.event_init, h.call.value,
                            h.clk, ScriptOf(h.io))
      [] h.op = "write_audio" ->
           write_audio(h.auto_flush, h.call.tag, h.call.event_init, h.call.value,
                       h.clk, ScriptOf(h.io))
      [] h.op = "write_event" -> write_event(h.auto_flush, h.call.event, ScriptOf(h.io))
      [] h.op = "flush" -> flush(ScriptOf(h.io))

Abandoned(h) == h.result = [ok |-> FALSE, err |-> "Abandoned"]

\* C5: a suspend-capable operation that runs to its end makes the calls on
\* the sink, gives the result and leaves the sink and what is flushed as the
\* blocking operation does on the same arguments against a sink that does
\* the same.
C5_Step ==
    (Ends /\ Ended.kind = "async" /\ ~Abandoned(Ended)) =>
        \E blocking \in {Blocking(Ended)} :
            /\ Ended.io = blocking.io
            /\ Ended.result = blocking.result
            /\ Ended.event = blocking.event
            /\ sink' = Ended.before \o Accepted(blocking.io)
            /\ flushed' = FlushedAfter(Len(Ended.before), flushed, blocking.io)

C5_AsyncAsBlocking == [][C5_Step]_vars

\* A suspend-capable write under auto_flush has run to its flush, and the
\* suspend-capable write after it has failed in its payload.
C5_Witness ==
    /\ writer.v.kind = "async" /\ writer.v.auto_flush
    /\ Len(history) = 2
    /\ history[1].op = "write_image_list" /\ history[1].result.ok
    /\ Len(history[1].io) = 5
    /\ history[2].op = "write_tensor" /\ ~history[2].result.ok
    /\ Len(history[2].io) = 3
    /\ flushed > 0 /\ flushed < Len(sink)

\* A write whose frame went to the sink and whose flush then failed.
FlushFailed(h) ==
    /\ IsWriteOp(h)
    /\ \E k \in Failed(h.io) : IsFlush(h.io[k])

\* C15: under auto_flush, a write whose frame is written and whose flush
\* fails returns the I/O error after five calls, the last one the flush;
\* the sink holds what it held before followed by the whole frame, once,
\* and nothing more is flushed than before.  A flush operation that
\* succeeds later writes nothing, and all the sink holds is flushed then:
\* the frame of that write too, where the write put it.
C15_Step ==
    /\ (Ends /\ FlushFailed(Ended)) =>
          /\ Ended.auto_flush
          /\ Ended.result = [ok |-> FALSE, err |-> "IoError"]
          /\ Len(Ended.io) = 5
          /\ Failed(Ended.io) = {5}
          /\ sink' = Ended.before \o FrameOf(Ended)
          /\ flushed' = flushed
          /\ writer' = writer
    /\ (Ends /\ Ended.op = "flush" /\ Ended.result.ok) =>
          /\ Ended.io = <<FlushCall(TRUE)>>
          /\ sink' = Ended.before
          /\ flushed' = Len(sink')
          /\ \A i \in 1..Len(history) :
                FlushFailed(history[i]) =>
                   /\ Len(history[i].before) + Len(FrameOf(history[i])) <= flushed'
                   /\ SubSeq(sink', Len(history[i].before) + 1,
                             Len(history[i].before) + Len(FrameOf(history[i])))
                        = FrameOf(history[i])
                   /\ ReadsFrame(Drop(sink', Len(history[i].before)))

C15_FlushFailureKeepsFrame == [][C15_Step]_vars

\* The flush of a write_scalar failed, and the flush operation after it
\* succeeded: the sink holds one frame, all of it flushed.
C15_Witness ==
    /\ Len(history) = 2
    /\ history[1].op = "write_scalar" /\ FlushFailed(history[1])
    /\ ~history[1].result.ok
    /\ history[2].op = "flush" /\ history[2].result.ok
    /\ Len(ReadFrames(sink).payloads) = 1
    /\ ReadFrames(sink).rest = <<>>
    /\ flushed = Len(sink)

\* A write that is abandoned in this step.
AbandonsWrite == Ends /\ Abandoned(Ended) /\ IsWriteOp(Ended)

\* The frames of the writes before the one that ends are whole and pass
\* their checks, and the sink held nothing else when it started.
EarlierFramesIntact ==
    \A read \in {ReadFrames(Ended.before)} :
        /\ read.rest = <<>>
        /\ Len(read.payloads) = Len(OkWrites(history))
        /\ \A i \in 1..Len(read.payloads) :
              read.payloads[i] = EncodeEvent(OkWrites(history)[i].event.v)

\* C16 as stated: when a write in flight is abandoned, the sink keeps what
\* it took: the frames before, whole and valid, then the ranges of the
\* abandoned frame up to one of its boundaries (none, the length, the
\* length's checksum, the payload, the payload's checksum); and no flush is
\* issued for the abandoned write.
C16_PrefixEndsAtBoundary_Step ==
    AbandonsWrite =>
        /\ sink' = sink
        /\ EarlierFramesIntact
        /\ \E j \in 0..4 :
              sink' = Ended.before
                        \o Concat(SubSeq(RecordRanges(EncodeEvent(Ended.event.v)), 1, j))
        /\ Flushes(Ended.io) = {}
        /\ inflight.v.pc # 5

C16_PrefixEndsAtBoundary == [][C16_PrefixEndsAtBoundary_Step]_vars

\* C16, amended: when a write in flight is abandoned, the sink keeps what it
\* took: the frames before, whole and valid, then a prefix of the abandoned
\* frame, which ends at a boundary if the sink took nothing of the range
\* whose write_all was pending, inside that range if it took a part, and is
\* the whole frame if the flush was pending; no flush of the abandoned write
\* has completed, and nothing more is flushed than before.
C16_Step ==
    AbandonsWrite =>
        /\ sink' = sink
        /\ EarlierFramesIntact
        /\ IsPrefix(Drop(sink', Len(Ended.before)), FrameOf(Ended))
        /\ sink' = Ended.before \o Accepted(Ended.io)
                     \o (IF inflight.v.pc \in 1..4
                         THEN Take(RecordRanges(EncodeEvent(Ended.event.v))[inflight.v.pc],
                                   inflight.v.taken)
                         ELSE <<>>)
        /\ Len(Ended.io) = inflight.v.pc - 1
        /\ \A k \in 1..Len(Ended.io) :
              /\ IsWrite(Ended.io[k])
              /\ Ended.io[k].ok
              /\ Ended.io[k].buf = RecordRanges(EncodeEvent(Ended.event.v))[k]
        /\ inflight.v.pc = 5 =>
              /\ Ended.auto_flush
              /\ sink' = Ended.before \o FrameOf(Ended)
        /\ flushed' = flushed

C16_AbandonedWrite == [][C16_Step]_vars

\* A write was abandoned while the write_all of its payload was pending,
\* after the sink took the first byte of the payload: 13 bytes of the frame
\* follow the frame of the write before.
C16_Witness ==
    /\ Len(history) = 2
    /\ history[1].op = "write_scalar" /\ history[1].result.ok
    /\ Abandoned(history[2]) /\ history[2].op = "write_text"
    /\ Len(history[2].io) = 2
    /\ Len(sink) = Len(history[2].before) + 13
    /\ Len(ReadFrames(sink).payloads) = 1
    /\ Len(ReadFrames(sink).rest) = 13

\* C9: an event built by a write has the caller's step, and the caller's
\* wall time if there is one, else the reading of the clock when the write
\* built it; write_event sends the caller's event as it is; and whatever
\* the steps and wall times of the events before, a write fails only on a
\* value that does not convert, on a sink call that failed, or by being
\* abandoned.
C9_StepAndWallTimeAsGiven ==
    \A i \in 1..Len(history) :
        /\ (IsWriteOp(history[i]) /\ history[i].op # "write_event"
              /\ history[i].event.some) =>
              /\ history[i].event.v.step = history[i].call.event_init.step
              /\ history[i].event.v.wall_time =
                    IF history[i].call.event_init.form = "i64"
                    THEN history[i].clk
                    ELSE history[i].call.event_init.wall_time
        /\ history[i].op = "write_event" =>
              history[i].event = [some |-> TRUE, v |-> history[i].call.event]
        /\ (IsWriteOp(history[i]) /\ ~history[i].result.ok) =>
              \/ Unconvertible(history[i])
              \/ Failed(history[i].io) # {}
              \/ Abandoned(history[i])

\* A write with step 0 and wall time 9, then, at reading 2 of the clock, a
\* write with step 1 and no wall time: the wall times written are 9 and 2.
C9_Witness ==
    /\ Len(history) = 2
    /\ history[1].op = "write_scalar" /\ history[1].result.ok
    /\ history[1].event.v.step = 0 /\ history[1].event.v.wall_time = 9
    /\ history[2].op = "write_scalar" /\ history[2].result.ok
    /\ history[2].event.v.step = 1 /\ history[2].event.v.wall_time = 2
    /\ Len(ReadFrames(sink).payloads) = 2

(***************************************************************************)
(* The builders on their own (src/src/summary/event.rs): each step applies *)
(* one builder to inputs of its own choice and keeps the call and what it  *)
(* gave in probe.                                                          *)
(***************************************************************************)
\* Images in one list.
MaxImages == 3

\* "loss", "pics", "note"
S_loss == <<108, 111, 115, 115>>
S_pics == <<112, 105, 99, 115>>
S_note == <<110, 111, 116, 101>>

\* Tags and texts: strings, the empty string, and numbers (T: ToString).
WideTags == {Str(S_loss), Str(S_pics), Str(S_note), Str(S_empty), Num(12)}
WideTexts == {Str(<<104, 105>>), Str(S_empty), Num(7)}
WideScalars == {0, 25}
WideValues == {Convertible([id |-> 1]), Convertible([id |-> 2]), Inconvertible}
WideTensors == {Convertible(TensorProto(1, <<[size |-> 2, name |-> S_empty]>>, <<>>, <<7, 8>>)),
                Convertible(TensorProto(DtString, <<>>, <<S_note>>, <<>>)),
                Inconvertible}
WideImageLists == UNION {[1..n -> WideValues] : n \in 0..MaxImages}
WideSteps == {-1, 0, 5}
WideEventInits ==
    {FromStep(st) : st \in WideSteps}
      \cup {FromStepWall(st, wt) : st \in WideSteps, wt \in {0, 9}}
      \cup {FromStepTime(st, 4) : st \in WideSteps}
WideSummaries == {[value |-> <<>>], build_scalar(Str(S_loss), 25).v}

Probe(fn, tag, arg, out) == [fn |-> fn, tag |-> tag, arg |-> arg, out |-> out]

\* All the state but probe.
rest == <<writer, sink, flushed, now, inflight, faults, history, ctor, fs>>

BuildScalar ==
    /\ \E tag \in WideTags, v \in WideScalars :
          probe' = Probe("build_scalar", tag, v, build_scalar(tag, v))
    /\ UNCHANGED rest

BuildString ==
    /\ \E tag \in WideTags, v \in WideTexts :
          probe' = Probe("build_string", tag, v, build_string(tag, v))
    /\ UNCHANGED rest

BuildHistogram ==
    /\ \E tag \in WideTags, v \in WideValues :
          probe' = Probe("build_histogram", tag, v, build_histogram(tag, v))
    /\ UNCHANGED rest

BuildTensor ==
    /\ \E tag \in WideTags, v \in WideTensors :
          probe' = Probe("build_tensor", tag, v, build_tensor(tag, v))
    /\ UNCHANGED rest

BuildImage ==
    /\ \E tag \in WideTags, v \in WideValues :
          probe' = Probe("build_image", tag, v, build_image(tag, v))
    /\ UNCHANGED rest

BuildImageList ==
    /\ \E tag \in WideTags, v \in WideImageLists :
          probe' = Probe("build_image_list", tag, v, build_image_list(tag, v))
    /\ UNCHANGED rest

BuildAudio ==
    /\ \E tag \in WideTags, v \in WideValues :
          probe' = Probe("build_audio", tag, v, build_audio(tag, v))
    /\ UNCHANGED rest

\* event_init.into().build_with_summary(summary) and .build_empty(), at any
\* reading of the clock.
BuildWithSummary ==
    /\ \E ei \in WideEventInits, summary \in WideSummaries, clk \in 1..MaxClock :
          probe' = [fn |-> "build_with_summary", event_init |-> ei, summary |-> summary,
                clk |-> clk,
                out |-> build_with_summary(into_EventInit(ei), summary, clk)]
    /\ UNCHANGED rest

BuildEmpty ==
    /\ \E ei \in WideEventInits, clk \in 1..MaxClock :
          probe' = [fn |-> "build_empty", event_init |-> ei, clk |-> clk,
                out |-> build_empty(into_EventInit(ei), clk)]
    /\ UNCHANGED rest

InitBuild ==
    /\ writer = NoneV
    /\ sink = <<>>
    /\ flushed = 0
    /\ now = 1
    /\ inflight = NoneV
    /\ faults = 0
    /\ history = <<>>
    /\ ctor = <<>>
    /\ fs = [dirs |-> {}, files |-> {}]
    /\ probe = NoProbe

NextBuild ==
    \/ BuildScalar \/ BuildString \/ BuildHistogram \/ BuildTensor \/ BuildImage
    \/ BuildImageList \/ BuildAudio \/ BuildWithSummary \/ BuildEmpty

SpecBuild == InitBuild /\ [][NextBuild]_vars

(***************************************************************************)
(* Properties of the builders, under SpecBuild.                            *)
(***************************************************************************)
TypedBuilders == {"build_scalar", "build_histogram", "build_tensor", "build_image",
                  "build_audio"}
SummaryBuilders == TypedBuilders \cup {"build_string", "build_image_list"}

\* The payload variant each typed builder is to yield for the value v.
VariantOf(fn, v) ==
    CASE fn = "build_scalar" -> [kind |-> "SimpleValue", simple_value |-> v]
      [] fn = "build_histogram" -> [kind |-> "Histo", histo |-> v.proto]
      [] fn = "build_tensor" -> [kind |-> "Tensor", tensor |-> v.proto]
      [] fn = "build_image" -> [kind |-> "Image", image |-> v.proto]
      [] fn = "build_audio" -> [kind |-> "Audio", audio |-> v.proto]

\* "/image" and "/image/"
T_image == <<47, 105, 109, 97, 103, 101>>
T_image_slash == <<47, 105, 109, 97, 103, 101, 47>>

\* C6: build_image_list yields one Value per converted image, the i-th
\* carrying the i-th image: a single image is tagged "{tag}/image", each of
\* two or more is tagged "{tag}/image/{index}" with its index counted from 0,
\* and no image gives a Summary with no Value.
C6_ImageListTags ==
    (probe.fn = "build_image_list" /\ probe.out.ok) =>
        /\ Len(probe.out.v.value) = Len(probe.arg)
        /\ \A i \in 1..Len(probe.arg) :
              /\ probe.out.v.value[i].value = [kind |-> "Image", image |-> probe.arg[i].proto]
              /\ probe.out.v.value[i].tag =
                    IF Len(probe.arg) = 1
                    THEN to_string(probe.tag) \o T_image
                    ELSE to_string(probe.tag) \o T_image_slash \o <<48 + (i - 1)>>
        /\ Len(probe.arg) = 0 => probe.out.v.value = <<>>

\* Three images under "pics": the third Value is tagged "pics/image/2".
C6_Witness ==
    /\ probe.fn = "build_image_list"
    /\ probe.tag = Str(S_pics)
    /\ Len(probe.arg) = 3
    /\ probe.out.ok
    /\ Len(probe.out.v.value) = 3
    /\ probe.out.v.value[3].tag = <<112, 105, 99, 115, 47, 105, 109, 97, 103, 101, 47, 50>>

\* C7: a text write with tag t and string s yields one Value tagged t whose
\* payload is a string-dtype tensor of rank 1 and size 1 that holds the
\* bytes of s and nothing else, and whose metadata has plugin_name "text",
\* description s and an empty display_name.
C7_TextValue ==
    probe.fn = "build_string" =>
        /\ probe.out.ok
        /\ Len(probe.out.v.value) = 1
        /\ probe.out.v.value[1].tag = to_string(probe.tag)
        /\ probe.out.v.value[1].value.kind = "Tensor"
        /\ probe.out.v.value[1].value.tensor.dtype = DtString
        /\ Len(probe.out.v.value[1].value.tensor.tensor_shape.dim) = 1
        /\ probe.out.v.value[1].value.tensor.tensor_shape.dim[1].size = 1
        /\ ~probe.out.v.value[1].value.tensor.tensor_shape.unknown_rank
        /\ probe.out.v.value[1].value.tensor.string_val = <<to_string(probe.arg)>>
        /\ probe.out.v.value[1].value.tensor.tensor_content = <<>>
        /\ probe.out.v.value[1].metadata.some
        /\ probe.out.v.value[1].metadata.v.plugin_data.some
        /\ probe.out.v.value[1].metadata.v.plugin_data.v.plugin_name = <<116, 101, 120, 116>>
        /\ probe.out.v.value[1].metadata.v.summary_description = to_string(probe.arg)
        /\ probe.out.v.value[1].metadata.v.display_name = <<>>

\* "hi" under "note".
C7_Witness ==
    /\ probe.fn = "build_string"
    /\ probe.tag = Str(S_note)
    /\ probe.arg = Str(<<104, 105>>)
    /\ probe.out.ok
    /\ probe.out.v.value[1].value.tensor.string_val = <<(<<104, 105>>)>>
    /\ probe.out.v.value[1].metadata.v.summary_description = <<104, 105>>

\* C8: in the Summary of any builder a Value has metadata exactly if the
\* text builder made it, and its node_name is empty; the scalar, histogram,
\* tensor, image and audio builders yield one Value, with the caller's tag
\* and the payload variant of their kind.
C8_MetadataOnlyForText ==
    (probe.fn \in SummaryBuilders /\ probe.out.ok) =>
        /\ \A i \in 1..Len(probe.out.v.value) :
              /\ probe.out.v.value[i].metadata.some <=> (probe.fn = "build_string")
              /\ probe.out.v.value[i].node_name = <<>>
        /\ probe.fn \in TypedBuilders =>
              /\ Len(probe.out.v.value) = 1
              /\ probe.out.v.value[1].tag = to_string(probe.tag)
              /\ probe.out.v.value[1].value = VariantOf(probe.fn, probe.arg)

\* A tensor under "loss": one Value, of the tensor variant, without metadata.
C8_Witness ==
    /\ probe.fn = "build_tensor"
    /\ probe.tag = Str(S_loss)
    /\ probe.out.ok
    /\ Len(probe.out.v.value) = 1
    /\ probe.out.v.value[1].value.kind = "Tensor"
    /\ ~probe.out.v.value[1].metadata.some

(***************************************************************************)
(* The constructors on their own (src/src/summary/writer.rs): each step    *)
(* is one constructor call, in an environment of its own choice.           *)
(***************************************************************************)
\* "h", ".x"
S_host == <<104>>
S_suffix == <<46, 120>>

\* "", "l/r-", "l/", "r", "/l", "..", "/", "l/..", "/."
Prefixes == {S_empty, <<108, 47, 114, 45>>, <<108, 47>>, <<114>>, <<47, 108>>,
             S_dotdot, <<47>>, <<108, 47, 46, 46>>, <<47, 46>>}
Suffixes == {NoneV, Some(S_suffix)}
Hosts == {HostName(S_host), HostNotUnicode, HostUnknown}
\* "f", "l/f"
Paths == {<<102>>, <<108, 47, 102>>}
Inits == {EventWriterInit_default, [auto_flush |-> FALSE]}

Constructed(fn, call, made) ==
    /\ ctor' = Append(ctor, [fn |-> fn, call |-> call, clk |-> now, made |-> made])
    /\ fs' = [dirs |-> fs.dirs \cup made.dirs, files |-> fs.files \cup made.files]
    /\ writer' = IF made.result.ok THEN Some(made.result.v) ELSE writer
    /\ UNCHANGED <<sink, flushed, now, inflight, faults, history, probe>>

FromWriter ==
    /\ Len(ctor) < MaxCtor
    /\ \E init \in Inits :
          Constructed("from_writer", [init |-> init],
                      Made(from_writer(init), <<>>, {}, {}))

FromAsyncWriter ==
    /\ Len(ctor) < MaxCtor
    /\ \E init \in Inits :
          Constructed("from_async_writer", [init |-> init],
                      Made(from_async_writer(init), <<>>, {}, {}))

Create ==
    /\ Len(ctor) < MaxCtor
    /\ \E init \in Inits, path \in Paths, file_ok \in BOOLEAN :
          Constructed("create", [init |-> init, path |-> path],
                      create(init, path, file_ok))

CreateAsync ==
    /\ Len(ctor) < MaxCtor
    /\ \E init \in Inits, path \in Paths, file_ok \in BOOLEAN :
          Constructed("create_async", [init |-> init, path |-> path],
                      create_async(init, path, file_ok))

FromPrefix ==
    /\ Len(ctor) < MaxCtor
    /\ \E init \in Inits, prefix \in Prefixes, suffix \in Suffixes, host \in Hosts,
          dir_ok \in BOOLEAN, file_ok \in BOOLEAN :
          Constructed("from_prefix",
                      [init |-> init, prefix |-> prefix, file_name_suffix |-> suffix,
                       host |-> host],
                      from_prefix(init, prefix, suffix, now, host, dir_ok, file_ok))

FromPrefixAsync ==
    /\ Len(ctor) < MaxCtor
    /\ \E init \in Inits, prefix \in Prefixes, suffix \in Suffixes, host \in Hosts,
          dir_ok \in BOOLEAN, file_ok \in BOOLEAN :
          Constructed("from_prefix_async",
                      [init |-> init, prefix |-> prefix, file_name_suffix |-> suffix,
                       host |-> host],
                      from_prefix_async(init, prefix, suffix, now, host, dir_ok, file_ok))

\* create_tf_style_path on its own: the path from_prefix and
\* from_prefix_async go on with.
CreateTfStylePath ==
    /\ Len(ctor) < MaxCtor
    /\ \E prefix \in Prefixes, suffix \in Suffixes, host \in Hosts :
          ctor' = Append(ctor,
                    [fn |-> "create_tf_style_path",
                     call |-> [prefix |-> prefix, file_name_suffix |-> suffix,
                               host |-> host],
                     clk |-> now,
                     made |-> Made(create_tf_style_path(prefix, suffix, now, host).result,
                                   create_tf_style_path(prefix, suffix, now, host).effects,
                                   {}, {})])
    /\ UNCHANGED <<writer, sink, flushed, now, inflight, faults, history, fs, probe>>

\* Nothing is constructed yet; the clock reads anything.
InitCtor ==
    /\ writer = NoneV
    /\ sink = <<>>
    /\ flushed = 0
    /\ now \in 1..MaxClock
    /\ inflight = NoneV
    /\ faults = 0
    /\ history = <<>>
    /\ ctor = <<>>
    /\ fs = [dirs |-> {}, files |-> {}]
    /\ probe = NoProbe

NextCtor ==
    \/ FromWriter \/ FromAsyncWriter \/ Create \/ CreateAsync
    \/ FromPrefix \/ FromPrefixAsync \/ CreateTfStylePath

SpecCtor == InitCtor /\ [][NextCtor]_vars

(***************************************************************************)
(* Properties of the constructors, under SpecCtor.                         *)
(***************************************************************************)
EmptyPrefixCall(c) ==
    /\ c.fn \in {"from_prefix", "from_prefix_async"}
    /\ c.call.prefix = <<>>

\* C10: from_prefix and from_prefix_async with the empty prefix fail with
\* InvalidArgumentsError before anything else: they read no clock and no host
\* name, create no directory and no file, and make no writer.
C10_EmptyPrefixFailsFirst ==
    /\ \A i \in 1..Len(ctor) :
          EmptyPrefixCall(ctor[i]) =>
              /\ ctor[i].made.result = [ok |-> FALSE, err |-> "InvalidArgumentsError"]
              /\ ctor[i].made.effects = <<>>
              /\ ctor[i].made.dirs = {}
              /\ ctor[i].made.files = {}
    /\ (\A i \in 1..Len(ctor) : EmptyPrefixCall(ctor[i])) =>
          /\ writer = NoneV
          /\ fs = [dirs |-> {}, files |-> {}]

\* from_prefix_async with the empty prefix and a suffix has failed.
C10_Witness ==
    /\ Len(ctor) = 1
    /\ ctor[1].fn = "from_prefix_async"
    /\ ctor[1].call.prefix = <<>>
    /\ ctor[1].call.file_name_suffix.some
    /\ ~ctor[1].made.result.ok
    /\ writer = NoneV

(***************************************************************************)
(* Properties of path resolution, under SpecCtor.                          *)
(***************************************************************************)
\* A call of create_tf_style_path that gave a directory and a file name.
Resolved(c) == c.fn = "create_tf_style_path" /\ c.made.result.ok

EndsInSeparator(prefix) == prefix # <<>> /\ prefix[Len(prefix)] = MAIN_SEPARATOR

\* The final component of a path, "" for a path without components.
FinalComponent(path) ==
    IF components(path) = <<>> THEN <<>>
    ELSE components(path)[Len(components(path))]

\* The path without its final component.
WithoutFinalComponent(path) ==
    (IF has_root(path) THEN <<MAIN_SEPARATOR>> ELSE <<>>)
    \o Joined(SubSeq(components(path), 1, Len(components(path)) - 1), 1)

\* "{file_name_prefix}.out.tfevents.{micros}.{host}{suffix}" for the call c.
TfStyleName(c, file_name_prefix) ==
    file_name_prefix \o S_out_tfevents \o Decimal(c.clk * 1000000) \o S_dot
    \o c.call.host.name
    \o (IF c.call.file_name_suffix.some THEN c.call.file_name_suffix.v ELSE <<>>)

\* C11 as stated: a prefix that ends in the separator is the directory and
\* the file name has no prefix; of any other prefix the final path component
\* is the prefix of the file name and its parent is the directory; the file
\* name is "{prefix}.out.tfevents.{micros}.{host}{suffix}".
C11_FinalComponentIsFileNamePrefix ==
    \A i \in 1..Len(ctor) :
        Resolved(ctor[i]) =>
            IF EndsInSeparator(ctor[i].call.prefix)
            THEN /\ ctor[i].made.result.v.dir_prefix = ctor[i].call.prefix
                 /\ ctor[i].made.result.v.file_name = TfStyleName(ctor[i], <<>>)
            ELSE /\ ctor[i].made.result.v.dir_prefix
                      = WithoutFinalComponent(ctor[i].call.prefix)
                 /\ ctor[i].made.result.v.file_name
                      = TfStyleName(ctor[i], FinalComponent(ctor[i].call.prefix))

\* C11, amended: as stated, but of a prefix whose final component is ".."
\* or "." (a path without a file name) the file name has no prefix, and a
\* path without a parent is the directory itself; so "l/r-" without a suffix gives the directory "l" and a file name that
\* starts with "r-.out.tfevents.".
C11_PathSplit ==
    \A i \in 1..Len(ctor) :
        Resolved(ctor[i]) =>
            /\ IF EndsInSeparator(ctor[i].call.prefix)
               THEN /\ ctor[i].made.result.v.dir_prefix = ctor[i].call.prefix
                    /\ ctor[i].made.result.v.file_name = TfStyleName(ctor[i], <<>>)
               ELSE /\ ctor[i].made.result.v.dir_prefix
                         = IF components(ctor[i].call.prefix) = <<>>
                           THEN ctor[i].call.prefix
                           ELSE WithoutFinalComponent(ctor[i].call.prefix)
                    /\ ctor[i].made.result.v.file_name
                         = TfStyleName(ctor[i],
                              IF FinalComponent(ctor[i].call.prefix) \in {S_dot, S_dotdot}
                              THEN <<>>
                              ELSE FinalComponent(ctor[i].call.prefix))
            /\ (ctor[i].call.prefix = <<108, 47, 114, 45>>
                  /\ ~ctor[i].call.file_name_suffix.some) =>
                  /\ ctor[i].made.result.v.dir_prefix = <<108>>
                  /\ IsPrefix(<<114, 45>> \o S_out_tfevents,
                              ctor[i].made.result.v.file_name)

\* "l/.." with a suffix is resolved: the directory is "l", and the file
\* name starts with ".out.tfevents.".
C11_Witness ==
    /\ Len(ctor) = 1
    /\ Resolved(ctor[1])
    /\ ctor[1].call.prefix = <<108, 47, 46, 46>>
    /\ ctor[1].call.file_name_suffix.some
    /\ ctor[1].made.result.v.dir_prefix = <<108>>
    /\ IsPrefix(S_out_tfevents, ctor[1].made.result.v.file_name)

\* A call that resolves a path from a prefix that is not empty.
ResolvingCall(c) ==
    /\ c.fn \in {"from_prefix", "from_prefix_async", "create_tf_style_path"}
    /\ c.call.prefix # <<>>

\* C12 as stated: when the lookup of the host name fails, and when the host
\* name is not Unicode, the call fails with UnicodeError.
C12_HostFailuresAreUnicodeErrors ==
    \A i \in 1..Len(ctor) :
        (ResolvingCall(ctor[i]) /\ ctor[i].call.host \in {HostUnknown, HostNotUnicode}) =>
            ctor[i].made.result = [ok |-> FALSE, err |-> "UnicodeError"]

\* C12, amended: a host name that is not Unicode makes the call fail with
\* UnicodeError, a failed lookup of the host name with the I/O error of the
\* lookup; either way no directory and no file is created.
C12_HostNameFailure ==
    /\ \A i \in 1..Len(ctor) :
          ResolvingCall(ctor[i]) =>
              /\ ctor[i].call.host = HostNotUnicode =>
                    ctor[i].made.result = [ok |-> FALSE, err |-> "UnicodeError"]
              /\ ctor[i].call.host = HostUnknown =>
                    ctor[i].made.result = [ok |-> FALSE, err |-> "IoError"]
              /\ ctor[i].call.host \in {HostUnknown, HostNotUnicode} =>
                    /\ ctor[i].made.effects = <<"SystemTime::now", "hostname::get">>
                    /\ ctor[i].made.dirs = {}
                    /\ ctor[i].made.files = {}
    /\ (\A i \in 1..Len(ctor) :
           ResolvingCall(ctor[i]) /\ ctor[i].call.host \in {HostUnknown, HostNotUnicode}) =>
          /\ writer = NoneV
          /\ fs = [dirs |-> {}, files |-> {}]

\* from_prefix with "l/r-" where the lookup of the host name fails: no
\* writer, an IoError.
C12_Witness ==
    /\ Len(ctor) = 1
    /\ ctor[1].fn = "from_prefix"
    /\ ctor[1].call.prefix = <<108, 47, 114, 45>>
    /\ ctor[1].call.host = HostUnknown
    /\ ~ctor[1].made.result.ok
    /\ ctor[1].made.result.err = "IoError"
    /\ writer = NoneV

(***************************************************************************)
(* The framer on its own (4.2): each step hands one payload to             *)
(* write_record, on a sink that follows a script of its choice, or changes *)
(* one byte of what a sink that never failed holds.                        *)
(***************************************************************************)
MaxRecords == 2

\* No byte, one zero byte, two bytes.
FramePayloads == {<<>>, <<0>>, <<255, 1>>}

\* probe: the payloads handed over, the result and the sink calls of each,
\* the bytes in the sink, and the place of the byte changed (0: none).
Framed(payloads, results, io, bytes, changed) ==
    [fn |-> "write_record", payloads |-> payloads, results |-> results, io |-> io,
     bytes |-> bytes, changed |-> changed]

WriteRecord ==
    /\ Len(probe.payloads) < MaxRecords
    /\ probe.changed = 0
    /\ \E payload \in FramePayloads, script \in Scripts \ {[fail_at |-> 5, accepted |-> 0]} :
          \E out \in {write_record(payload, script)} :
             /\ Feasible(script, out.io)
             /\ probe' = Framed(Append(probe.payloads, payload),
                                Append(probe.results, out.result),
                                Append(probe.io, out.io),
                                probe.bytes \o Accepted(out.io),
                                0)
    /\ UNCHANGED rest

\* One byte of the sink's content becomes another byte.
ChangeByte ==
    /\ probe.changed = 0
    /\ probe.payloads # <<>>
    /\ \A k \in 1..Len(probe.results) : probe.results[k].ok
    /\ \E at \in 1..Len(probe.bytes) : \E b \in Byte \ {probe.bytes[at]} :
          probe' = Framed(probe.payloads, probe.results, probe.io,
                          [i \in 1..Len(probe.bytes) |->
                              IF i = at THEN b ELSE probe.bytes[i]],
                          at)
    /\ UNCHANGED rest

InitFrame ==
    /\ writer = NoneV
    /\ sink = <<>>
    /\ flushed = 0
    /\ now = 1
    /\ inflight = NoneV
    /\ faults = 0
    /\ history = <<>>
    /\ ctor = <<>>
    /\ fs = [dirs |-> {}, files |-> {}]
    /\ probe = Framed(<<>>, <<>>, <<>>, <<>>, 0)

NextFrame == WriteRecord \/ ChangeByte

SpecFrame == InitFrame /\ [][NextFrame]_vars

(***************************************************************************)
(* Properties of the framer, under SpecFrame.                              *)
(***************************************************************************)
\* The frame of the payload 0xFF 0x01, byte by byte.
FrameOfFF01 ==
    <<2, 0, 0, 0, 0, 0, 0, 0, 120, 39, 11, 52, 255, 1, 171, 44, 40, 67>>

\* C13: a write_record that returns Ok has made four calls on the sink, in
\* this order: the length of the payload in 8 little-endian bytes, the
\* masked CRC32C of these 8 bytes in 4, the payload, the masked CRC32C
\* of the payload in 4; the sink took 16 + length bytes, which start with
\* the length of the payload; and the sink holds what the calls of the
\* records handed over, record after record.
C13_FourRangesInOrder ==
    /\ \A k \in 1..Len(probe.payloads) :
          probe.results[k].ok =>
             /\ Len(probe.io[k]) = 4
             /\ \A j \in 1..4 :
                   /\ IsWrite(probe.io[k][j])
                   /\ probe.io[k][j].ok
                   /\ probe.io[k][j].accepted = Len(probe.io[k][j].buf)
             /\ probe.io[k][1].buf = LittleEndian(Len(probe.payloads[k]), 8)
             /\ probe.io[k][2].buf = masked_crc32c(probe.io[k][1].buf)
             /\ Len(probe.io[k][2].buf) = 4
             /\ probe.io[k][3].buf = probe.payloads[k]
             /\ probe.io[k][4].buf = masked_crc32c(probe.payloads[k])
             /\ Len(probe.io[k][4].buf) = 4
             /\ Len(Accepted(probe.io[k])) = 16 + Len(probe.payloads[k])
             /\ FromLittleEndian(Take(Accepted(probe.io[k]), 8)) = Len(probe.payloads[k])
             /\ probe.payloads[k] = <<255, 1>> => Accepted(probe.io[k]) = FrameOfFF01
    /\ probe.changed = 0 =>
          probe.bytes = Concat([k \in 1..Len(probe.io) |-> Accepted(probe.io[k])])

\* Two records, of two bytes and of none: eight calls, 34 bytes.
C13_Witness ==
    /\ probe.payloads = << <<255, 1>>, <<>> >>
    /\ probe.results[1].ok /\ probe.results[2].ok
    /\ Len(probe.io[1]) + Len(probe.io[2]) = 8
    /\ Len(probe.bytes) = 34
    /\ probe.changed = 0

RECURSIVE FrameStart(_, _)
\* Where the k-th frame starts in the sink: the bytes before it.
FrameStart(payloads, k) ==
    IF k = 1 THEN 0 ELSE FrameStart(payloads, k - 1) + 16 + Len(payloads[k - 1])

\* The frame a changed byte lies in.
FrameChanged ==
    CHOOSE k \in 1..Len(probe.payloads) :
        /\ FrameStart(probe.payloads, k) < probe.changed
        /\ probe.changed <= FrameStart(probe.payloads, k) + 16 + Len(probe.payloads[k])

\* C14: what a sink that never failed holds reads back, frame by frame and
\* with both checks passing, as the payloads handed to write_record; and
\* once one byte of a frame is changed, that frame fails a check: the
\* reader gets the payloads of the frames before it and stops there.
C14_RoundTripAndDetection ==
    (probe.payloads # <<>> /\ \A k \in 1..Len(probe.results) : probe.results[k].ok) =>
        \A read \in {ReadFrames(probe.bytes)} :
            IF probe.changed = 0
            THEN /\ read.payloads = probe.payloads
                 /\ read.rest = <<>>
            ELSE /\ read.payloads = SubSeq(probe.payloads, 1, FrameChanged - 1)
                 /\ read.rest = Drop(probe.bytes, FrameStart(probe.payloads, FrameChanged))

\* The last byte of the payload of the second of two frames is changed: the
\* reader gets the first payload only.
C14_Witness ==
    /\ probe.payloads = << <<0>>, <<255, 1>> >>
    /\ probe.changed = 31
    /\ probe.bytes[31] = 0
    /\ ReadFrames(probe.bytes).payloads = << <<0>> >>
====
